---- MODULE Spec2Model ----
(***************************************************************************)
(* Model of nimt_notice_monitor (src/main.py): the notice check cycle      *)
(* (fetch, parse, insert-if-absent, push, mark notified), the portal       *)
(* login (login_jwc, login_jwc_rsa, login_jwc_direct), the portal          *)
(* commands (bind, unbind, update, course table, today's courses), the     *)
(* change-detection job and the scheduled course push.                     *)
(*                                                                         *)
(* The plugin runs on one asyncio event loop: code between two awaits is   *)
(* one atomic step, and every action below is one such step.  Strings are  *)
(* sequences of tokens, so that prefix tests and concatenation are         *)
(* computed as the code computes them.                                     *)
(***************************************************************************)
EXTENDS Integers, Sequences, FiniteSets, TLC

VARIABLES
  rows,      \* the notices table: a set of rows
  now,       \* the clock CURRENT_TIMESTAMP and datetime.now() read
  cycles,    \* check cycles started so far
  pc,        \* per invocation: where its coroutine is suspended
  site,      \* per invocation: index into sites_config of the site being checked
  found,     \* per invocation: all_new_notices / new_notices collected so far
  pushIdx,   \* per invocation: index into found of the notice being pushed
  rcpt,      \* per invocation: index of the recipient whose send is awaited
  callLog,   \* per invocation: the recipients tried in the current send_notice_push
  callFailed,\* per invocation: a send_message of the current send_notice_push raised
  updated,   \* per invocation: the notice ids whose notified-update ran in this cycle
  visited,   \* per invocation: the sites check_site_notices was called for in this cycle
  faults,    \* store errors raised so far
  sent,      \* history: send_message calls so far per <<notice id, recipient>>
  updFailed, \* history: notice ids whose notified-update raised
  obs,       \* history: what the last step did
  use_rsa,   \* jwc_config["use_rsa_encryption"]
  has_rsa,   \* the rsa library can be imported and encrypts
  lpc,       \* where the login_jwc call in flight is suspended
  lcookies,  \* login_jwc_rsa: the cookies of its login POST
  wire,      \* history: the password field of each login POST of the call
  posts,     \* history: the portal's answer to each login POST of the call
  lresult,   \* what login_jwc returned
  bindings,  \* the user_bindings table: a set of rows
  sessions,  \* the login_sessions table: a set of rows
  courses,   \* the course_schedules table: a set of rows
  changes,   \* the course_changes table: a set of rows
  cmd,       \* the portal command or job in flight, with its local variables
  cmds,      \* per slot: a command of some chat identity in flight, with its local variables
  elem_text, \* parse_notices: the date text matched in an element of a list item
  push_times,\* jwc_config["course_push_times"]
  jobs,      \* the course-push jobs registered with the scheduler
  push_time, \* start_scheduler: its loop variable, which the job functions close over
  ptask      \* the course push or today's-courses command in flight

noticeVars == <<rows, now, cycles, pc, site, found, pushIdx, rcpt, callLog,
                callFailed, updated, visited, faults, sent, updFailed, obs>>

loginVars == <<use_rsa, has_rsa, lpc, lcookies, wire, posts, lresult>>

jwcVars == <<bindings, sessions, courses, changes, cmd>>

pushVars == <<push_times, jobs, push_time, ptask>>

restVars == <<cmds, elem_text, pushVars>>

vars == <<noticeVars, loginVars, jwcVars, restVars>>

----------------------------------------------------------------------------
(* Bounds *)

\* check cycles (scheduled or manual) started in one behaviour
MaxCycles == 2
\* <li> items on one fetched listing page
MaxPage == 2
\* store errors (sqlite3 exceptions) raised in one behaviour
MaxFaults == 1
\* the last reading of the clock when time passes in steps of its own
MaxClock == 3
\* course entries in one fetched timetable
MaxEntries == 2

----------------------------------------------------------------------------
(* Configuration: load_config.  Nothing in the program changes it. *)

sites_config ==
  << [id |-> <<"main">>,   base_url |-> <<"http", "B">>, enabled |-> TRUE],
     [id |-> <<"xinxi">>,  base_url |-> <<"http", "B">>, enabled |-> FALSE],
     [id |-> <<"jiaowu">>, base_url |-> <<"http", "B">>, enabled |-> TRUE] >>

push_targets == [users |-> <<"u1", "u2">>, groups |-> <<"g1">>]

\* The two ways a check cycle is invoked: the scheduled job
\* (check_all_sites_task) and the admin command (cmd_check_notices).
Invocations == {"task", "cmd"}

----------------------------------------------------------------------------
(* The pages the sites may serve *)

\* A date text is the sequence of its digit groups and of the characters
\* between them, so that the substitutions of lines 460-462 are computed
\* on the text.  "Y", "M" and "D" stand for the characters U+5E74, U+6708
\* and U+65E5 (the Chinese year, month and day marks).
Iso20240305 == <<"2024", "-", "03", "-", "05">>

\* The <li> items the main site's listing may show: notice n1 linked
\* root-relative, the same notice linked relative and re-rendered (another
\* title, no date), a notice linked absolute, and an item whose link has no
\* visible text.
MainItems ==
  { [title |-> "A", href |-> <<"/", "n1">>,     date |-> Iso20240305 ],
    [title |-> "B", href |-> <<"n1">>,          date |-> <<>>],
    [title |-> "A", href |-> <<"http", "X">>,   date |-> Iso20240305 ],
    [title |-> "",  href |-> <<"/", "n1">>,     date |-> <<>>] }

\* The other sites' listings show one notice or nothing.
OtherItems == { [title |-> "A", href |-> <<"/", "n1">>, date |-> <<>>] }

ItemsOf(i) == IF i = 1 THEN MainItems ELSE OtherItems

PagesOf(i) == UNION { [1..n -> ItemsOf(i)] : n \in 0..MaxPage }

\* The body of an error answer (status 4xx or 5xx): empty, or the listing in
\* the site's layout with one item.
ErrorPagesOf(i) == { <<>> } \cup { <<it>> : it \in { x \in ItemsOf(i) : x.date = <<>> } }

\* What a GET of the listing URL of site i may end in.
Responses(i) ==
  { [kind |-> "ok", items |-> pg] : pg \in PagesOf(i) }
    \cup { [kind |-> "http_error", items |-> pg] : pg \in ErrorPagesOf(i) }
    \cup { [kind |-> "timeout", items |-> <<>>] }

\* line 452: datetime.now().strftime("%Y-%m-%d")
Today == <<"2024", "-", "03", "-", "01">>

----------------------------------------------------------------------------
(* fetch_page, parse_notices *)

\* the call of raise_for_status (lines 390, 394) left out
fetch_page_NoRaise(resp) == resp.items

\* fetch_page: the body on success, "" after raise_for_status or a timeout.
\* A body is the sequence of its <li> items; "" is the empty sequence.
fetch_page(resp) == IF resp.kind = "ok" THEN resp.items ELSE <<>>

StartsWith(s, tok) == Len(s) > 0 /\ s[1] = tok

\* lines 444-450: absolute unchanged, root-relative prefixed with base_url,
\* otherwise base_url + "/" + href
ResolveUrl(base_url, href) ==
  IF StartsWith(href, "http") THEN href
  ELSE IF StartsWith(href, "/") THEN base_url \o href
  ELSE base_url \o <<"/">> \o href

\* line 466: md5(f"{site_id}_{url}"); the digest is represented by the
\* string it is taken of (md5 is taken to be collision free)
NoticeId(site_id, url) == site_id \o <<"_">> \o url

RECURSIVE SubChars(_, _, _)
\* re.sub of a character class: every character of s that is in from is
\* replaced by to (digit groups hold none of these characters)
SubChars(s, from, to) ==
  IF s = <<>> THEN <<>>
  ELSE (IF Head(s) \in from THEN to ELSE <<Head(s)>>) \o SubChars(Tail(s), from, to)

\* lines 460-462: the year and month marks become "-", the day mark is
\* dropped, "/" becomes "-"
NormalizeDate(date_str) ==
  SubChars(SubChars(SubChars(date_str, {"Y", "M"}, <<"-">>), {"D"}, <<>>),
           {"/"}, <<"-">>)

\* lines 452-464: today's date unless an element of the item shows a date
\* (item.date is the text the pattern of line 457 matched, empty for none)
PublishDate(item) == IF item.date = <<>> THEN Today ELSE NormalizeDate(item.date)

ParseItem(item, sc) ==
  LET url == ResolveUrl(sc.base_url, item.href)
  IN  [id |-> NoticeId(sc.id, url), site_id |-> sc.id, title |-> item.title,
       url |-> url, publish_date |-> PublishDate(item)]

\* lines 436-442: an item without a link, or whose link has no visible
\* text, is skipped
Usable(item) == item.title # ""

RECURSIVE ParseItems(_, _)
ParseItems(items, sc) ==
  IF items = <<>> THEN <<>>
  ELSE IF Usable(Head(items))
       THEN <<ParseItem(Head(items), sc)>> \o ParseItems(Tail(items), sc)
       ELSE ParseItems(Tail(items), sc)

parse_notices(html, sc) == IF html = <<>> THEN <<>> ELSE ParseItems(html, sc)

----------------------------------------------------------------------------
(* The notices table *)

Ids(rs) == { r.id : r \in rs }

\* line 499-501: SELECT id FROM notices WHERE id = ?
SelectId(rs, id) == id \in Ids(rs)

\* lines 502-505: INSERT INTO notices; id is the PRIMARY KEY (line 188),
\* notified and notified_at take their defaults (lines 194-195)
InsertRow(rs, n, t) ==
  IF n.id \in Ids(rs)
  THEN [raised |-> TRUE, rows |-> rs]
  ELSE [raised |-> FALSE,
        rows |-> rs \cup { [id |-> n.id, site_id |-> n.site_id, title |-> n.title,
                            url |-> n.url, publish_date |-> n.publish_date,
                            notified |-> FALSE,
                            notified_at |-> 0] }]

\* new_notices.append placed after the if instead of inside it
UpsertIfNew_AppendAlways(rs, n, t) ==
  IF SelectId(rs, n.id)
  THEN [raised |-> FALSE, rows |-> rs, new |-> <<n>>]
  ELSE LET ins == InsertRow(rs, n, t)
       IN  [raised |-> ins.raised, rows |-> ins.rows,
            new |-> IF ins.raised THEN <<>> ELSE <<n>>]

\* INSERT OR REPLACE instead of SELECT and INSERT
UpsertIfNew_Replace(rs, n, t) ==
  LET ins == InsertRow({ r \in rs : r.id # n.id }, n, t)
  IN  [raised |-> ins.raised, rows |-> ins.rows,
       new |-> IF SelectId(rs, n.id) THEN <<>> ELSE <<n>>]

\* lines 498-506, one iteration: insert if absent, and report it as new
UpsertIfNew(rs, n, t) ==
  IF SelectId(rs, n.id)
  THEN [raised |-> FALSE, rows |-> rs, new |-> <<>>]
  ELSE LET ins == InsertRow(rs, n, t)
       IN  [raised |-> ins.raised, rows |-> ins.rows,
            new |-> IF ins.raised THEN <<>> ELSE <<n>>]

\* lines 498-508: the loop over the page's notices and the commit.  faultAt
\* is the statement at which the store raises: 0 never, k the k-th notice's
\* statements, Len(batch)+1 the commit.
RECURSIVE StoreLoop(_, _, _, _, _, _)
StoreLoop(batch, k, rs, new, faultAt, t) ==
  IF faultAt = k THEN [raised |-> TRUE, rows |-> rs, new |-> new]
  ELSE IF k > Len(batch) THEN [raised |-> FALSE, rows |-> rs, new |-> new]
  ELSE LET step == UpsertIfNew(rs, batch[k], t)
       IN  IF step.raised
           THEN [raised |-> TRUE, rows |-> step.rows, new |-> new \o step.new]
           ELSE StoreLoop(batch, k + 1, step.rows, new \o step.new, faultAt, t)

\* lines 488-514: an exception leaves the loop before conn.commit(), so
\* the connection is dropped with its transaction open and nothing of the
\* batch is stored; new_notices is returned as it stands
check_site_notices(rs, batch, faultAt, t) ==
  LET res == StoreLoop(batch, 1, rs, <<>>, faultAt, t)
  IN  [raised |-> res.raised,
       rows |-> IF res.raised THEN rs ELSE res.rows,
       new |-> res.new]

\* the update keyed by a value no row has as id
MarkNotified_NoRow(rs, id, t) == rs

\* the update without its WHERE clause
MarkNotified_AllRows(rs, id, t) ==
  { [r EXCEPT !.notified = TRUE, !.notified_at = t] : r \in rs }

\* lines 556-559: UPDATE notices SET notified = 1,
\* notified_at = CURRENT_TIMESTAMP WHERE id = ?
MarkNotified(rs, id, t) ==
  { IF r.id = id THEN [r EXCEPT !.notified = TRUE, !.notified_at = t] ELSE r :
      r \in rs }

----------------------------------------------------------------------------
(* check_all_sites, send_notice_push *)

\* lines 519-520: the next enabled site at or after index i
RECURSIVE NextEnabled(_)
NextEnabled(i) ==
  IF i > Len(sites_config) THEN i
  ELSE IF sites_config[i].enabled THEN i
  ELSE NextEnabled(i + 1)

\* lines 542-552: the users first, then the groups
Recipients ==
  [i \in 1..Len(push_targets.users) |-> <<"private", push_targets.users[i]>>]
    \o [i \in 1..Len(push_targets.groups) |-> <<"group", push_targets.groups[i]>>]

\* one try around both loops: a failed send ends them
NextRecipient_StopOnFailure(j, ok) == IF ok THEN j + 1 ELSE Len(Recipients) + 1

\* lines 542-552: the recipient tried after the j-th, whatever the j-th
\* send did (its exception is caught inside the loop)
NextRecipient(j, ok) == j + 1

Bump(f, k) == IF k \in DOMAIN f THEN [f EXCEPT ![k] = @ + 1] ELSE f @@ (k :> 1)

NoObs == [op |-> "none"]

NoLogin == [success |-> FALSE, error |-> "none", cookies |-> {}]

\* __init__ lines 63-78: the default jwc_config; no login in flight
LoginIdle ==
  /\ lpc = "idle"
  /\ lcookies = {}
  /\ wire = <<>>
  /\ posts = <<>>
  /\ lresult = NoLogin

\* init_database lines 203-280: the portal tables are empty, no command runs
JwcIdle ==
  /\ bindings = {}
  /\ sessions = {}
  /\ courses = {}
  /\ changes = {}
  /\ cmd = [op |-> "idle"]

\* the chat identities that send portal commands
ChatIds == {"q1", "q2"}

\* The commands that may be in flight at once.
CmdSlots == {"c1", "c2"}

\* __init__ lines 66-69: the default course_push_times; "all_day" stands for
\* the push type of the 07:00 entry and "afternoon" for that of the 12:00 entry
DefaultPushTimes ==
  << [hour |-> 7, minute |-> 0, type |-> "all_day"],
     [hour |-> 12, minute |-> 0, type |-> "afternoon"] >>

NoPushTime == [hour |-> 0, minute |-> 0, type |-> "none"]

\* __init__ and init_database: the scheduler has no job yet, nothing runs
RestIdle ==
  /\ cmds = [k \in CmdSlots |-> [op |-> "idle"]]
  /\ elem_text = <<>>
  /\ push_times = DefaultPushTimes
  /\ jobs = <<>>
  /\ push_time = NoPushTime
  /\ ptask = [op |-> "idle"]

\* __init__ lines 43-83 and init_database: no cycle in flight
NoticeIdle ==
  /\ cycles = 0
  /\ pc = [p \in Invocations |-> "idle"]
  /\ site = [p \in Invocations |-> 0]
  /\ found = [p \in Invocations |-> <<>>]
  /\ pushIdx = [p \in Invocations |-> 0]
  /\ rcpt = [p \in Invocations |-> 0]
  /\ callLog = [p \in Invocations |-> <<>>]
  /\ callFailed = [p \in Invocations |-> FALSE]
  /\ updated = [p \in Invocations |-> <<>>]
  /\ visited = [p \in Invocations |-> <<>>]
  /\ faults = 0
  /\ sent = <<>>
  /\ updFailed = {}
  /\ obs = NoObs

Init ==
  /\ rows = {}
  /\ now = 1
  /\ NoticeIdle
  /\ use_rsa = TRUE
  /\ has_rsa = TRUE
  /\ LoginIdle
  /\ JwcIdle
  /\ RestIdle

\* check_all_sites_task line 357 / cmd_check_notices line 1569: the call of
\* check_all_sites up to the first await of fetch_page
StartCycle(p) ==
  /\ pc[p] = "idle"
  /\ cycles < MaxCycles
  /\ cycles' = cycles + 1
  /\ LET i == NextEnabled(1)
     IN  IF i > Len(sites_config)
         THEN UNCHANGED <<site, pc>>
         ELSE /\ site' = [site EXCEPT ![p] = i]
              /\ pc' = [pc EXCEPT ![p] = "fetch"]
  /\ obs' = [op |-> "start", p |-> p]
  /\ UNCHANGED <<rows, now, found, pushIdx, rcpt, callLog, callFailed, updated,
                 visited, faults, sent, updFailed, loginVars, jwcVars, restVars>>

\* one cycle at a time: no other invocation is in flight
StartCycleSeq(p) ==
  /\ \A q \in Invocations : pc[q] = "idle"
  /\ StartCycle(p)

\* check_site_notices lines 492-514: the response of the site arrives, is
\* parsed and stored, up to the await of asyncio.sleep (line 524)
CheckSite(p) ==
  /\ pc[p] = "fetch"
  /\ \E resp \in Responses(site[p]) :
       LET sc == sites_config[site[p]]
           batch == parse_notices(fetch_page(resp), sc)
       IN  \E faultAt \in 0..(IF faults < MaxFaults THEN Len(batch) + 1 ELSE 0) :
             LET res == check_site_notices(rows, batch, faultAt, now)
             IN  /\ rows' = res.rows
                 /\ found' = [found EXCEPT ![p] = @ \o res.new]
                 /\ faults' = IF faultAt = 0 THEN faults ELSE faults + 1
                 /\ obs' = [op |-> "check", p |-> p,
                            n |-> Len(batch),
                            m |-> Cardinality({i \in 1..Len(batch) : batch[i].id \in Ids(rows)}),
                            fresh |-> {batch[i].id : i \in 1..Len(batch)} \ Ids(rows),
                            rerendered |-> \E i \in 1..Len(batch) : \E r \in rows :
                                             r.id = batch[i].id /\ r.title # batch[i].title,
                            reported |-> [i \in 1..Len(res.new) |-> res.new[i].id],
                            inserted |-> res.rows \ rows,
                            fault |-> faultAt # 0,
                            raised |-> res.raised,
                            fetched |-> resp.kind = "ok"]
  /\ pc' = [pc EXCEPT ![p] = "sleep"]
  /\ visited' = [visited EXCEPT ![p] = Append(@, site[p])]
  /\ UNCHANGED <<now, cycles, site, pushIdx, rcpt, callLog, callFailed, updated,
                 sent, updFailed, loginVars, jwcVars, restVars>>

\* check_all_sites lines 519-528 after the sleep: the next enabled site, or
\* the return; then check_all_sites_task lines 359-364 /
\* cmd_check_notices lines 1571-1589 up to the first send_message
Sleep(p) ==
  /\ pc[p] = "sleep"
  /\ now' = now + 1
  /\ LET i == NextEnabled(site[p] + 1)
     IN  IF i <= Len(sites_config)
         THEN /\ site' = [site EXCEPT ![p] = i]
              /\ pc' = [pc EXCEPT ![p] = "fetch"]
              /\ obs' = [op |-> "sleep", p |-> p]
              /\ UNCHANGED <<pushIdx, rcpt, visited>>
         ELSE /\ site' = [site EXCEPT ![p] = 0]
              /\ visited' = [visited EXCEPT ![p] = <<>>]
              /\ obs' = [op |-> "returned", p |-> p, visited |-> visited[p]]
              /\ IF found[p] = <<>>
                 THEN /\ pc' = [pc EXCEPT ![p] = "idle"]
                      /\ UNCHANGED <<pushIdx, rcpt>>
                 ELSE /\ pc' = [pc EXCEPT ![p] = "send"]
                      /\ pushIdx' = [pushIdx EXCEPT ![p] = 1]
                      /\ rcpt' = [rcpt EXCEPT ![p] = 1]
  /\ UNCHANGED <<rows, cycles, found, callLog, callFailed, updated, faults, sent,
                 updFailed, loginVars, jwcVars, restVars>>

\* send_notice_push lines 542-552: the awaited send_message returns or
\* raises, and the next one is awaited
Deliver(p) ==
  /\ pc[p] = "send"
  /\ rcpt[p] < Len(Recipients)
  /\ \E ok \in BOOLEAN :
       /\ callFailed' = [callFailed EXCEPT ![p] = @ \/ ~ok]
       /\ rcpt' = [rcpt EXCEPT ![p] = NextRecipient(rcpt[p], ok)]
  /\ callLog' = [callLog EXCEPT ![p] = @ \o <<Recipients[rcpt[p]]>>]
  /\ sent' = Bump(sent, <<found[p][pushIdx[p]].id, Recipients[rcpt[p]]>>)
  /\ obs' = [op |-> "send", p |-> p]
  /\ UNCHANGED <<rows, now, cycles, pc, site, found, pushIdx, updated, visited,
                 faults, updFailed, loginVars, jwcVars, restVars>>

\* send_notice_push lines 548-561: the last send_message returns or raises,
\* the notice is marked notified (the update may raise, caught at line 563),
\* and the caller's loop goes on to the next notice (lines 361-362,
\* 1584-1585) up to its first send_message
DeliverLast(p) ==
  /\ pc[p] = "send"
  /\ rcpt[p] >= Len(Recipients)
  /\ LET id == found[p][pushIdx[p]].id
         tried == IF rcpt[p] = Len(Recipients)
                  THEN callLog[p] \o <<Recipients[rcpt[p]]>>
                  ELSE callLog[p]
     IN  /\ sent' = IF rcpt[p] = Len(Recipients)
                    THEN Bump(sent, <<id, Recipients[rcpt[p]]>>)
                    ELSE sent
         /\ \E ok \in BOOLEAN, raised \in {FALSE} \cup {faults < MaxFaults} :
              /\ rows' = IF raised THEN rows ELSE MarkNotified(rows, id, now)
              /\ faults' = IF raised THEN faults + 1 ELSE faults
              /\ updFailed' = IF raised /\ SelectId(rows, id)
                              THEN updFailed \cup {id} ELSE updFailed
              /\ obs' = [op |-> "pushed", p |-> p, id |-> id, tried |-> tried,
                         failedEarlier |-> callFailed[p],
                         failed |-> callFailed[p] \/ ~ok, raised |-> raised,
                         stored |-> SelectId(rows, id)]
  /\ callLog' = [callLog EXCEPT ![p] = <<>>]
  /\ callFailed' = [callFailed EXCEPT ![p] = FALSE]
  /\ IF pushIdx[p] < Len(found[p])
     THEN /\ pushIdx' = [pushIdx EXCEPT ![p] = @ + 1]
          /\ rcpt' = [rcpt EXCEPT ![p] = 1]
          /\ updated' = [updated EXCEPT ![p] = @ \o <<found[p][pushIdx[p]].id>>]
          /\ UNCHANGED <<pc, found>>
     ELSE /\ pushIdx' = [pushIdx EXCEPT ![p] = 0]
          /\ rcpt' = [rcpt EXCEPT ![p] = 0]
          /\ found' = [found EXCEPT ![p] = <<>>]
          /\ updated' = [updated EXCEPT ![p] = <<>>]
          /\ pc' = [pc EXCEPT ![p] = "idle"]
  /\ UNCHANGED <<now, cycles, site, visited, loginVars, jwcVars, restVars>>

Next ==
  \E p \in Invocations :
    \/ StartCycle(p)
    \/ CheckSite(p)
    \/ Sleep(p)
    \/ Deliver(p)
    \/ DeliverLast(p)

\* check cycles that may overlap
Spec == Init /\ [][Next]_vars

NextSeq ==
  \E p \in Invocations :
    \/ StartCycleSeq(p)
    \/ CheckSite(p)
    \/ Sleep(p)
    \/ Deliver(p)
    \/ DeliverLast(p)

\* check cycles run one after another
SpecSeq == Init /\ [][NextSeq]_vars

----------------------------------------------------------------------------
(* The notified-update on its own: send_notice_push lines 554-561 applied  *)
(* to tables the check cycle stores, at any reading of the clock           *)

\* the notices parse_notices yields for the first site
MarkNotices ==
  { ParseItem(it, sites_config[1]) : it \in { x \in MainItems : Usable(x) } }

\* the row the INSERT of line 503 stores for a notice
FreshRow(n) == CHOOSE r \in InsertRow({}, n, 0).rows : TRUE

\* the tables check cycles store: at most one row per id, none notified yet
MarkTables ==
  { rs \in SUBSET { FreshRow(n) : n \in MarkNotices } :
      \A r1, r2 \in rs : r1.id = r2.id => r1 = r2 }

InitMark ==
  /\ rows \in MarkTables
  /\ now = 1
  /\ NoticeIdle
  /\ use_rsa = TRUE
  /\ has_rsa = TRUE
  /\ LoginIdle
  /\ JwcIdle
  /\ RestIdle

\* lines 554-561: the update of one notice id runs and commits
MarkStep ==
  /\ \E id \in { n.id : n \in MarkNotices } :
       /\ rows' = MarkNotified(rows, id, now)
       /\ obs' = [op |-> "mark", id |-> id, before |-> rows,
                  wasNotified |-> \E r \in rows : r.id = id /\ r.notified]
  /\ UNCHANGED <<now, cycles, pc, site, found, pushIdx, rcpt, callLog,
                 callFailed, updated, visited, faults, sent, updFailed, loginVars, jwcVars, restVars>>

\* a second passes between two updates
Tick ==
  /\ now < MaxClock
  /\ now' = now + 1
  /\ obs' = [op |-> "tick"]
  /\ UNCHANGED <<rows, cycles, pc, site, found, pushIdx, rcpt, callLog,
                 callFailed, updated, visited, faults, sent, updFailed, loginVars, jwcVars, restVars>>

NextMark ==
  \/ MarkStep
  \/ Tick

SpecMark == InitMark /\ [][NextMark]_vars

----------------------------------------------------------------------------
(* The portal login: rsa_encrypt_password, fetch_jwc_with_cookies,         *)
(* login_jwc_rsa, login_jwc_direct, login_jwc                              *)

Password == "pw"

\* line 731: the cookies login_jwc_rsa takes as proof of a session
KeyCookies == {"username", "puid", "jw_uf"}

\* the cookies the portal sets
PortalCookies == {"jw_uf", "JSESSIONID"}

\* what the code looks for in a response body: it parses as JSON (line 622),
\* it contains the credential-error text, it contains the captcha text
Bodies == [json : BOOLEAN, cred : BOOLEAN, captcha : BOOLEAN]

NoBody == [json |-> FALSE, cred |-> FALSE, captcha |-> FALSE]

\* Location headers of a redirect
Locations ==
  { <<"/", "admin", "/", "main.html">>, <<"/", "admin", "/", "login">>,
    <<"/", "error">> }

\* The portal's answers to a login POST.  Status 0 stands for a request
\* that raised (timeout, connection error).
PostReplies ==
  { r \in [status : {302, 200, 500, 0}, cookies : SUBSET PortalCookies,
           body : Bodies, location : Locations \cup {<<>>}] :
      /\ r.status = 302 <=> r.location # <<>>
      /\ r.status # 200 => r.body = NoBody
      /\ r.status \in {500, 0} => r.cookies = {} }

\* The portal's answers to the GET of the login page (line 816)
GetReplies ==
  { g \in [raised : BOOLEAN, cookies : SUBSET {"JSESSIONID"}] :
      g.raised => g.cookies = {} }

Contains(s, tok) == \E i \in 1..Len(s) : s[i] = tok

\* lines 336-350: the RSA ciphertext, or base64 of the password itself when
\* the library is missing or the encryption raises
rsa_encrypt_password(password, rsa_ok) ==
  IF rsa_ok THEN [enc |-> "rsa", of |-> password]
  ELSE [enc |-> "base64", of |-> password]

\* lines 568-658, the result dict; "cookies": None is the empty set here,
\* the callers test it with "if cookies"
fetch_jwc_with_cookies(reply) ==
  IF reply.status \in {200, 302}
  THEN [ret |-> 0, data |-> reply.body, cookies |-> reply.cookies,
        status |-> reply.status]
  ELSE [ret |-> -1, data |-> NoBody, cookies |-> {}, status |-> reply.status]

LoginOk(cookies) == [success |-> TRUE, error |-> "none", cookies |-> cookies]

LoginFailed(error) == [success |-> FALSE, error |-> error, cookies |-> {}]

\* login_jwc_rsa lines 722-773: what the answer to the login POST leads to;
\* "probe" is the GET of /admin/main of lines 744-748
RsaAfterPost(res) ==
  IF res.status = 302
  THEN IF res.cookies # {} /\ res.cookies \cap KeyCookies # {}
       THEN [kind |-> "return", result |-> LoginOk(res.cookies)]
       ELSE [kind |-> "probe", result |-> NoLogin]
  ELSE IF res.status = 200
  THEN IF ~res.data.json
       THEN IF res.data.cred
            THEN [kind |-> "return", result |-> LoginFailed("bad_credentials")]
            ELSE IF res.data.captcha
            THEN [kind |-> "return", result |-> LoginFailed("captcha")]
            ELSE [kind |-> "return", result |-> LoginFailed("server_returned")]
       ELSE [kind |-> "return", result |-> LoginFailed("unknown_error")]
  ELSE [kind |-> "return", result |-> LoginFailed("status_code")]

\* login_jwc_rsa lines 750-759: the answer to the probe
RsaAfterProbe(status, cookies) ==
  IF status = 200 THEN LoginOk(cookies) ELSE LoginFailed("no_session")

\* login_jwc_direct lines 833-854
DirectAfterPost(reply, cookie_dict) ==
  IF reply.status = 0 THEN LoginFailed("exception")
  ELSE IF reply.status = 302
  THEN IF Contains(reply.location, "main.html") \/ Contains(reply.location, "admin")
       THEN LoginOk(cookie_dict)
       ELSE LoginFailed("redirected_to")
  ELSE IF reply.status = 200
  THEN IF reply.body.cred
       THEN LoginFailed("bad_credentials")
       ELSE LoginFailed("unknown_reason")
  ELSE LoginFailed("status_code")

InitLogin ==
  /\ rows = {}
  /\ now = 1
  /\ NoticeIdle
  /\ use_rsa \in BOOLEAN
  /\ has_rsa \in BOOLEAN
  /\ LoginIdle
  /\ JwcIdle
  /\ RestIdle

\* login_jwc lines 860-868 with login_jwc_rsa lines 697-720, or lines
\* 875-876 with login_jwc_direct lines 781-816: up to the first request
LoginStart ==
  /\ lpc \in {"idle", "done"}
  /\ IF use_rsa
     THEN /\ wire' = << [path |-> "rsa",
                         password |-> rsa_encrypt_password(Password, has_rsa)] >>
          /\ lpc' = "rsa_post"
     ELSE /\ wire' = <<>>
          /\ lpc' = "direct_get"
  /\ posts' = <<>>
  /\ lcookies' = {}
  /\ lresult' = NoLogin
  /\ UNCHANGED <<noticeVars, jwcVars, restVars, use_rsa, has_rsa>>

\* login_jwc_rsa lines 715-775: the login POST is answered.  On failure
\* login_jwc goes on to login_jwc_direct (lines 871-876), up to its GET.
RsaPostReply ==
  /\ lpc = "rsa_post"
  /\ \E reply \in PostReplies :
       LET res == fetch_jwc_with_cookies(reply)
           out == RsaAfterPost(res)
       IN  /\ posts' = Append(posts, [path |-> "rsa", status |-> res.status,
                                      cookies |-> res.cookies, body |-> res.data])
           /\ IF out.kind = "probe"
              THEN /\ lpc' = "rsa_probe"
                   /\ lcookies' = res.cookies
                   /\ UNCHANGED lresult
              ELSE IF out.result.success
              THEN /\ lpc' = "done"
                   /\ lresult' = out.result
                   /\ UNCHANGED lcookies
              ELSE /\ lpc' = "direct_get"
                   /\ UNCHANGED <<lcookies, lresult>>
  /\ UNCHANGED <<noticeVars, jwcVars, restVars, use_rsa, has_rsa, wire>>

\* login_jwc_rsa lines 744-759: the GET of /admin/main is answered
RsaProbeReply ==
  /\ lpc = "rsa_probe"
  /\ \E status \in {200, 500, 0} :
       LET result == RsaAfterProbe(status, lcookies)
       IN  IF result.success
           THEN /\ lpc' = "done"
                /\ lresult' = result
           ELSE /\ lpc' = "direct_get"
                /\ UNCHANGED lresult
  /\ lcookies' = {}
  /\ UNCHANGED <<noticeVars, jwcVars, restVars, use_rsa, has_rsa, wire, posts>>

\* login_jwc_direct lines 816-826: the GET of the login page is answered
\* and the form with the password is posted; a GET that raised ends the
\* login (lines 856-858, 877-883)
DirectGetReply ==
  /\ lpc = "direct_get"
  /\ \E g \in GetReplies :
       IF g.raised
       THEN /\ lpc' = "done"
            /\ lresult' = LoginFailed("exception")
            /\ UNCHANGED <<wire, lcookies>>
       ELSE /\ lpc' = "direct_post"
            /\ lcookies' = g.cookies
            /\ wire' = Append(wire, [path |-> "direct",
                                     password |-> [enc |-> "none", of |-> Password]])
            /\ UNCHANGED lresult
  /\ UNCHANGED <<noticeVars, jwcVars, restVars, use_rsa, has_rsa, posts>>

\* login_jwc_direct lines 820-854 and login_jwc lines 877-883: the login
\* POST is answered and login_jwc returns
DirectPostReply ==
  /\ lpc = "direct_post"
  /\ \E reply \in PostReplies :
       LET cookie_dict == lcookies \cup reply.cookies
           direct_result == DirectAfterPost(reply, cookie_dict)
       IN  /\ posts' = Append(posts, [path |-> "direct", status |-> reply.status,
                                      cookies |-> cookie_dict, body |-> reply.body])
           /\ lresult' = IF direct_result.success THEN direct_result
                         ELSE LoginFailed(direct_result.error)
  /\ lpc' = "done"
  /\ lcookies' = {}
  /\ UNCHANGED <<noticeVars, jwcVars, restVars, use_rsa, has_rsa, wire>>

NextLogin ==
  \/ LoginStart
  \/ RsaPostReply
  \/ RsaProbeReply
  \/ DirectGetReply
  \/ DirectPostReply

SpecLogin == InitLogin /\ [][NextLogin]_vars

----------------------------------------------------------------------------
(* The portal session and the timetable: save_user_cookies,                *)
(* get_user_cookies, get_current_week_with_cookies,                        *)
(* get_course_table_with_cookies, parse_course_table, save_courses_to_db   *)

\* the chat user who sends the commands, and the student id they bind
QQ == "q1"

Student == "s1"

\* line 1182: timedelta(hours=1), in readings of the clock
SessionWindow == 1

\* A cookie dict: the names, and the login its values come from (0: none).
NoCookies == [keys |-> {}, issued |-> 0]

CookieDict(keys, t) == IF keys = {} THEN NoCookies ELSE [keys |-> keys, issued |-> t]

\* what login_jwc returns: success with the cookies obtained, possibly
\* none, or a failure
LoginResults ==
  { LoginOk(c) : c \in { {}, PortalCookies } }
    \cup { LoginFailed(e) : e \in {"bad_credentials", "status_code"} }

\* lines 1626, 2008: the test of login_result.get("success") taken as passed
LoginAccepted_Always(result) == TRUE

\* lines 1626, 2008: login_result.get("success")
LoginAccepted(result) == result.success

Years == {"2024"}

\* the weeks a command can name
Weeks == {1, 2}

\* the weeks the portal gives as the current one
TermWeeks == {1}

\* The bodies of /admin/getDayBz: JSON with xlrq (the week zc and the term
\* xnxqh, which may be missing), JSON without it, the login page, nothing.
WeekBodies ==
  { [kind |-> "xlrq", zc |-> w, xnxqh |-> y] : w \in TermWeeks, y \in Years \cup {"none"} }
    \cup { [kind |-> k, zc |-> 0, xnxqh |-> "none"] : k \in {"json", "html", "empty"} }

EmptyBody == [kind |-> "empty", zc |-> 0, xnxqh |-> "none"]

\* The answers to a GET of /admin/getDayBz; status 0 is a request that raised.
WeekReplies ==
  { [status |-> 200, body |-> b, cookies |-> {}] : b \in WeekBodies }
    \cup { [status |-> st, body |-> EmptyBody, cookies |-> {}] : st \in {500, 0} }

\* The course entries of a timetable (kcxx under jcKcxx[].kbxx[]): day,
\* section code and name; "-" is the portal's empty course.
Entries ==
  { [day |-> 1, section |-> "1", name |-> n] : n \in {"X", "Y", "-"} }
    \cup { [day |-> 1, section |-> "2", name |-> "X"] }

Timetables == UNION { [1..n -> Entries] : n \in 0..MaxEntries }

\* The bodies of /admin/getXsdSykb: the JSON envelope with ret = 0 and the
\* timetable, the envelope with another ret and no timetable, the login
\* page, nothing.
TableBodies ==
  { [kind |-> "table", ret |-> 0, entries |-> t] : t \in Timetables }
    \cup { [kind |-> k, ret |-> -1, entries |-> <<>>] : k \in {"table", "html", "empty"} }

TableReplies ==
  { [status |-> 200, body |-> b, cookies |-> {}] : b \in TableBodies }
    \cup { [status |-> st, body |-> [kind |-> "empty", ret |-> -1, entries |-> <<>>],
            cookies |-> {}] : st \in {500, 0} }

\* result.get("data") as a condition: an empty body is falsy
Truthy(data) == data.kind # "empty"

NoWeek == [has |-> FALSE, zc |-> 0, xnxqh |-> "none"]

\* lines 928-953.  has: the returned value is truthy (a non-empty dict)
get_current_week_with_cookies(result) ==
  IF result.ret = 0 /\ Truthy(result.data)
  THEN IF result.data.kind = "xlrq"
       THEN [has |-> TRUE, zc |-> result.data.zc, xnxqh |-> result.data.xnxqh]
       ELSE NoWeek
  ELSE NoWeek

\* lines 1220-1225: the week to fetch when the caller names none
WeekOf(week_info) == IF week_info.has THEN week_info.zc ELSE 1

\* lines 987-990
YearOf(week_info) == IF week_info.has THEN week_info.xnxqh ELSE "none"

\* lines 982, 1001: the test get_course_table_with_cookies makes of the
\* answer: ret of the result of fetch_jwc_with_cookies, and data
TableAccepted(result) == result.ret = 0 /\ Truthy(result.data)

\* lines 1064-1065: md5 of the f-string, represented by what it is taken of
CourseHash(year, week, e) == <<year, week, e.day, e.section, e.name>>

CourseOf(e, sid, year, week) ==
  [student_id |-> sid, academic_year |-> year, week |-> week,
   day_of_week |-> e.day, section_code |-> e.section, course_name |-> e.name,
   course_hash |-> CourseHash(year, week, e)]

RECURSIVE ParseEntries(_, _, _, _)
ParseEntries(es, sid, year, week) ==
  IF es = <<>> THEN <<>>
  ELSE IF Head(es).name = "-"
       THEN ParseEntries(Tail(es), sid, year, week)
       ELSE <<CourseOf(Head(es), sid, year, week)>>
              \o ParseEntries(Tail(es), sid, year, week)

\* lines 1011-1095: a body that is no dict raises inside the try and gives []
parse_course_table(course_data, sid, year, week) ==
  IF course_data.kind = "table"
  THEN ParseEntries(course_data.entries, sid, year, week)
  ELSE <<>>

SameKey(r, sid, year, week) ==
  r.student_id = sid /\ r.academic_year = year /\ r.week = week

SameSlot(r, c) ==
  /\ SameKey(r, c.student_id, c.academic_year, c.week)
  /\ r.day_of_week = c.day_of_week /\ r.section_code = c.section_code

\* the table without its UNIQUE constraint
InsertCourse_NoUnique(rs, c) ==
  IF c.academic_year = "none"
  THEN [raised |-> TRUE, rows |-> rs]
  ELSE [raised |-> FALSE, rows |-> rs \cup {c}]

\* lines 1129-1146: INSERT INTO course_schedules; academic_year is NOT NULL
\* (line 235) and the slot is UNIQUE (line 254)
InsertCourse(rs, c) ==
  IF c.academic_year = "none" \/ \E r \in rs : SameSlot(r, c)
  THEN [raised |-> TRUE, rows |-> rs]
  ELSE [raised |-> FALSE, rows |-> rs \cup {c}]

RECURSIVE InsertCourses(_, _)
InsertCourses(rs, cs) ==
  IF cs = <<>> THEN [raised |-> FALSE, rows |-> rs]
  ELSE LET ins == InsertCourse(rs, Head(cs))
       IN  IF ins.raised THEN ins ELSE InsertCourses(ins.rows, Tail(cs))

\* lines 1115-1153: DELETE the key's rows (a NULL academic_year matches no
\* row), INSERT the new ones, commit; an exception skips the commit and the
\* transaction is rolled back
save_courses_to_db(rs, cs, sid, year, week) ==
  LET kept == { r \in rs : ~SameKey(r, sid, year, week) \/ year = "none" }
      ins == InsertCourses(kept, cs)
  IN  [raised |-> ins.raised, rows |-> IF ins.raised THEN rs ELSE ins.rows]

\* lines 1194-1214
get_user_cookies(ss, sid) ==
  IF \E r \in ss : r.student_id = sid /\ r.status = "active"
  THEN (CHOOSE r \in ss : r.student_id = sid /\ r.status = "active").cookies
  ELSE NoCookies

\* lines 1155-1192: UPDATE user_bindings, INSERT OR REPLACE INTO
\* login_sessions (student_id is its primary key)
save_user_cookies(bs, ss, qq, sid, cookies, t) ==
  [bindings |-> { IF r.qq_id = qq /\ r.student_id = sid
                  THEN [r EXCEPT !.cookie = cookies, !.last_login = t] ELSE r :
                    r \in bs },
   sessions |-> { r \in ss : r.student_id # sid }
                  \cup { [student_id |-> sid, cookies |-> cookies, last_login |-> t,
                          expires_at |-> t + SessionWindow, status |-> "active"] }]

\* The command in flight.  at: the await it is suspended at; cookies: the
\* cookies it sends; cached: they come from get_user_cookies; week: the
\* week to fetch (0: none yet); data: the timetable answer it accepted.
Idle == [op |-> "idle"]

InFlight(op, at, cookies, cached, week) ==
  [op |-> op, at |-> at, cookies |-> cookies, cached |-> cached, week |-> week,
   data |-> [kind |-> "empty", ret |-> -1, entries |-> <<>>]]

\* update_course_table_with_cookies lines 1216-1228, up to its first request
StartUpdate(op, cookies, cached, week) ==
  InFlight(op, IF week = 0 THEN "week" ELSE "table", cookies, cached, week)

Bound == \E b \in bindings : b.qq_id = QQ

\* what get_user_cookies reads, for the record of the step
UseOf(by) ==
  [op |-> "use", by |-> by,
   expired |-> \E r \in sessions :
                 r.student_id = Student /\ r.status = "active" /\ now >= r.expires_at,
   relogin |-> by = "update" /\ get_user_cookies(sessions, Student) = NoCookies,
   cookies |-> get_user_cookies(sessions, Student)]

\* line 1849: if not courses
NeedsFetch_Always(stored) == TRUE

\* line 1849: if not courses
NeedsFetch(stored) == stored = {}

InitJwc ==
  /\ rows = {}
  /\ now = 1
  /\ NoticeIdle
  /\ use_rsa = TRUE
  /\ has_rsa = TRUE
  /\ LoginIdle
  /\ JwcIdle
  /\ RestIdle

\* cmd_bind_jwc lines 1605-1624: not bound yet, login_jwc is awaited
BindStart ==
  /\ cmd = Idle
  /\ ~Bound
  /\ cmd' = InFlight("bind", "login", NoCookies, FALSE, 0)
  /\ obs' = [op |-> "bind_start"]
  /\ UNCHANGED <<bindings, sessions, courses, changes>>
  /\ UNCHANGED <<rows, now, cycles, pc, site, found, pushIdx, rcpt, callLog,
                 callFailed, updated, visited, faults, sent, updFailed, loginVars, restVars>>

\* cmd_bind_jwc lines 1624-1633, 1676-1678: login_jwc returns; on success
\* get_user_info_with_cookies is awaited
BindLoginDone ==
  /\ cmd.op = "bind" /\ cmd.at = "login"
  /\ \E result \in LoginResults :
       /\ cmd' = IF LoginAccepted(result)
                 THEN InFlight("bind", "userinfo", CookieDict(result.cookies, now),
                               FALSE, 0)
                 ELSE Idle
       /\ obs' = [op |-> "login_done", by |-> "bind", ok |-> result.success]
  /\ UNCHANGED <<bindings, sessions, courses, changes>>
  /\ UNCHANGED <<rows, now, cycles, pc, site, found, pushIdx, rcpt, callLog,
                 callFailed, updated, visited, faults, sent, updFailed, loginVars, restVars>>

\* cmd_bind_jwc lines 1633-1666: the user info arrives, the binding is
\* inserted and committed, save_user_cookies runs, and
\* update_course_table_with_cookies is awaited
BindUserInfo ==
  /\ cmd.op = "bind" /\ cmd.at = "userinfo"
  /\ LET row == [qq_id |-> QQ, student_id |-> Student,
                 password |-> [enc |-> "base64", of |-> Password],
                 cookie |-> cmd.cookies, last_login |-> 0, status |-> "active"]
         saved == save_user_cookies(bindings \cup {row}, sessions, QQ, Student,
                                    cmd.cookies, now)
     IN  /\ bindings' = saved.bindings
         /\ sessions' = saved.sessions
  /\ cmd' = StartUpdate("bind", cmd.cookies, FALSE, 0)
  /\ obs' = [op |-> "bound"]
  /\ UNCHANGED <<courses, changes>>
  /\ UNCHANGED <<rows, now, cycles, pc, site, found, pushIdx, rcpt, callLog,
                 callFailed, updated, visited, faults, sent, updFailed, loginVars, restVars>>

\* cmd_unbind_jwc lines 1683-1706
Unbind ==
  /\ cmd = Idle
  /\ Bound
  /\ bindings' = { b \in bindings : b.qq_id # QQ }
  /\ courses' = { r \in courses : r.student_id # Student }
  /\ sessions' = { r \in sessions : r.student_id # Student }
  /\ obs' = [op |-> "unbind"]
  /\ UNCHANGED <<changes, cmd>>
  /\ UNCHANGED <<rows, now, cycles, pc, site, found, pushIdx, rcpt, callLog,
                 callFailed, updated, visited, faults, sent, updFailed, loginVars, restVars>>

\* cmd_update_course lines 1970-2006, 2020-2023: the cached cookies are
\* read; without any, login_jwc is awaited with the stored password
UpdateStart ==
  /\ cmd = Idle
  /\ Bound
  /\ \E week \in {0} \cup Weeks :
       LET cookies == get_user_cookies(sessions, Student)
       IN  cmd' = IF cookies = NoCookies
                  THEN InFlight("update", "relogin", NoCookies, FALSE, week)
                  ELSE StartUpdate("update", cookies, TRUE, week)
  /\ obs' = UseOf("update")
  /\ UNCHANGED <<bindings, sessions, courses, changes>>
  /\ UNCHANGED <<rows, now, cycles, pc, site, found, pushIdx, rcpt, callLog,
                 callFailed, updated, visited, faults, sent, updFailed, loginVars, restVars>>

\* cmd_update_course lines 2006-2023: login_jwc returns; on success the
\* cookies are saved and update_course_table_with_cookies is awaited
ReloginDone ==
  /\ cmd.op = "update" /\ cmd.at = "relogin"
  /\ \E result \in LoginResults :
       /\ IF LoginAccepted(result)
          THEN LET cookies == CookieDict(result.cookies, now)
                   saved == save_user_cookies(bindings, sessions, QQ, Student,
                                              cookies, now)
               IN  /\ bindings' = saved.bindings
                   /\ sessions' = saved.sessions
                   /\ cmd' = StartUpdate("update", cookies, FALSE, cmd.week)
          ELSE /\ cmd' = Idle
               /\ UNCHANGED <<bindings, sessions>>
       /\ obs' = [op |-> "login_done", by |-> "update", ok |-> result.success]
  /\ UNCHANGED <<courses, changes>>
  /\ UNCHANGED <<rows, now, cycles, pc, site, found, pushIdx, rcpt, callLog,
                 callFailed, updated, visited, faults, sent, updFailed, loginVars, restVars>>

\* cmd_course_table lines 1787-1811: the cached cookies are read; with
\* some, get_current_week_with_cookies is awaited
TableStart ==
  /\ cmd = Idle
  /\ Bound
  /\ \E week \in {0} \cup Weeks :
       LET cookies == get_user_cookies(sessions, Student)
       IN  cmd' = IF cookies = NoCookies THEN Idle
                  ELSE InFlight("table", "ctweek", cookies, TRUE, week)
  /\ obs' = UseOf("table")
  /\ UNCHANGED <<bindings, sessions, courses, changes>>
  /\ UNCHANGED <<rows, now, cycles, pc, site, found, pushIdx, rcpt, callLog,
                 callFailed, updated, visited, faults, sent, updFailed, loginVars, restVars>>

\* cmd_course_table lines 1811-1851, 1867-1871: the week info arrives, the
\* week to show is settled (the next one at a weekend), the stored snapshot
\* of it is read; without one, update_course_table_with_cookies is awaited
TableWeekReply ==
  /\ cmd.op = "table" /\ cmd.at = "ctweek"
  /\ \E reply \in WeekReplies, weekend \in BOOLEAN :
       LET week_info == get_current_week_with_cookies(fetch_jwc_with_cookies(reply))
           query_week == IF cmd.week # 0 THEN cmd.week
                         ELSE IF weekend THEN week_info.zc + 1 ELSE week_info.zc
           stored == { r \in courses :
                         SameKey(r, Student, week_info.xnxqh, query_week) }
       IN  IF ~week_info.has
           THEN /\ cmd' = Idle
                /\ obs' = [op |-> "week_reply", status |-> reply.status,
                           cached |-> cmd.cached]
           ELSE /\ cmd' = IF NeedsFetch(stored)
                          THEN StartUpdate("table", cmd.cookies, TRUE, query_week)
                          ELSE Idle
                /\ obs' = [op |-> "query", stored |-> stored # {},
                           fetch |-> NeedsFetch(stored)]
  /\ UNCHANGED <<bindings, sessions, courses, changes>>
  /\ UNCHANGED <<rows, now, cycles, pc, site, found, pushIdx, rcpt, callLog,
                 callFailed, updated, visited, faults, sent, updFailed, loginVars, restVars>>

\* check_course_changes_task lines 1400-1423: for the bound user the cached
\* cookies are read; with some, update_course_table_with_cookies is awaited
TaskStart ==
  /\ cmd = Idle
  /\ Bound
  /\ LET cookies == get_user_cookies(sessions, Student)
     IN  cmd' = IF cookies = NoCookies THEN Idle
                ELSE StartUpdate("task", cookies, TRUE, 0)
  /\ obs' = UseOf("task")
  /\ UNCHANGED <<bindings, sessions, courses, changes>>
  /\ UNCHANGED <<rows, now, cycles, pc, site, found, pushIdx, rcpt, callLog,
                 callFailed, updated, visited, faults, sent, updFailed, loginVars, restVars>>

\* update_course_table_with_cookies lines 1220-1228: the week info arrives
\* and get_course_table_with_cookies sends its request
UpdWeekReply ==
  /\ cmd.op # "idle" /\ cmd.at = "week"
  /\ \E reply \in WeekReplies :
       LET week_info == get_current_week_with_cookies(fetch_jwc_with_cookies(reply))
       IN  /\ cmd' = [cmd EXCEPT !.at = "table", !.week = WeekOf(week_info)]
           /\ obs' = [op |-> "week_reply", status |-> reply.status,
                      cached |-> cmd.cached]
  /\ UNCHANGED <<bindings, sessions, courses, changes>>
  /\ UNCHANGED <<rows, now, cycles, pc, site, found, pushIdx, rcpt, callLog,
                 callFailed, updated, visited, faults, sent, updFailed, loginVars, restVars>>

\* get_course_table_with_cookies lines 975-988, 1001-1005 and
\* update_course_table_with_cookies lines 1238-1240: the timetable answer
\* arrives; accepted, the week info is asked for the term
UpdTableReply ==
  /\ cmd.op # "idle" /\ cmd.at = "table"
  /\ \E reply \in TableReplies :
       LET result == fetch_jwc_with_cookies(reply)
       IN  /\ cmd' = IF TableAccepted(result)
                     THEN [cmd EXCEPT !.at = "year", !.data = result.data]
                     ELSE Idle
           /\ obs' = [op |-> "table_reply", status |-> reply.status,
                      kind |-> reply.body.kind, ret |-> reply.body.ret,
                      accepted |-> TableAccepted(result), cached |-> cmd.cached]
  /\ UNCHANGED <<bindings, sessions, courses, changes>>
  /\ UNCHANGED <<rows, now, cycles, pc, site, found, pushIdx, rcpt, callLog,
                 callFailed, updated, visited, faults, sent, updFailed, loginVars, restVars>>

\* get_course_table_with_cookies lines 988-1000 and
\* update_course_table_with_cookies lines 1230-1237: the term arrives, the
\* timetable is parsed and saved, True is returned (line 1237), and the
\* command ends
UpdYearReply ==
  /\ cmd.op # "idle" /\ cmd.at = "year"
  /\ \E reply \in WeekReplies :
       LET week_info == get_current_week_with_cookies(fetch_jwc_with_cookies(reply))
           year == YearOf(week_info)
           parsed == parse_course_table(cmd.data, Student, year, cmd.week)
           saved == save_courses_to_db(courses, parsed, Student, year, cmd.week)
       IN  /\ courses' = saved.rows
           /\ obs' = [op |-> "saved", by |-> cmd.op, year |-> year,
                      week |-> cmd.week, raised |-> saved.raised,
                      success |-> TRUE]
  /\ cmd' = Idle
  /\ UNCHANGED <<bindings, sessions, changes>>
  /\ UNCHANGED <<rows, now, cycles, pc, site, found, pushIdx, rcpt, callLog,
                 callFailed, updated, visited, faults, sent, updFailed, loginVars, restVars>>

NextJwc ==
  \/ BindStart
  \/ BindLoginDone
  \/ BindUserInfo
  \/ Unbind
  \/ UpdateStart
  \/ ReloginDone
  \/ TableStart
  \/ TableWeekReply
  \/ TaskStart
  \/ UpdWeekReply
  \/ UpdTableReply
  \/ UpdYearReply
  \/ Tick

\* the portal commands and the change-detection job, one at a time
SpecJwc == InitJwc /\ [][NextJwc]_vars

----------------------------------------------------------------------------
(* Bind, unbind and update commands of several chat identities, overlapping *)

\* the student ids the commands name
StudentIds == {"s1", "s2"}

\* what login_jwc returns here: success with the portal's cookies, or a
\* failure
BindLoginResults == { LoginOk(PortalCookies), LoginFailed("bad_credentials") }

\* a command takes the first free slot
FreeSlot(k) ==
  /\ cmds[k] = Idle
  /\ k = "c2" => cmds["c1"] # Idle

\* the portal's answers to /admin/getDayBz here: week 1 of the term, or an
\* error status
BindWeekReplies ==
  { [status |-> 200, body |-> [kind |-> "xlrq", zc |-> 1, xnxqh |-> "2024"],
     cookies |-> {}],
    [status |-> 500, body |-> EmptyBody, cookies |-> {}] }

\* the portal's answers to /admin/getXsdSykb here: a timetable with one
\* course, or an error status
BindTableReplies ==
  { [status |-> 200,
     body |-> [kind |-> "table", ret |-> 0,
               entries |-> << [day |-> 1, section |-> "1", name |-> "X"] >>],
     cookies |-> {}],
    [status |-> 500, body |-> [kind |-> "empty", ret |-> -1, entries |-> <<>>],
     cookies |-> {}] }

\* a command in flight: who sent it, the student it is about, where it is
\* suspended, the cookies it sends, the week and the accepted timetable
Running(op, at, qq, sid, cookies, week) ==
  [op |-> op, at |-> at, qq |-> qq, sid |-> sid, cookies |-> cookies,
   week |-> week, data |-> [kind |-> "empty", ret |-> -1, entries |-> <<>>]]

\* line 1610, 1689, 1975: SELECT student_id FROM user_bindings WHERE qq_id = ?
BindingOf(bs, qq) == { b \in bs : b.qq_id = qq }

\* the table without its PRIMARY KEY
InsertBinding_NoKey(bs, row) == [raised |-> FALSE, rows |-> bs \cup {row}]

\* lines 1643-1658: INSERT INTO user_bindings; qq_id is the PRIMARY KEY
\* (line 205)
InsertBinding(bs, row) ==
  IF BindingOf(bs, row.qq_id) # {}
  THEN [raised |-> TRUE, rows |-> bs]
  ELSE [raised |-> FALSE, rows |-> bs \cup {row}]

\* lines 1700-1701: DELETE ... WHERE student_id = ?
UnbindRows(rs, sid) == { r \in rs : r.student_id # sid }

InitBind ==
  /\ rows = {}
  /\ now = 1
  /\ NoticeIdle
  /\ use_rsa = TRUE
  /\ has_rsa = TRUE
  /\ LoginIdle
  /\ JwcIdle
  /\ cmds = [k \in CmdSlots |-> Idle]
  /\ elem_text = <<>>
  /\ push_times = DefaultPushTimes
  /\ jobs = <<>>
  /\ push_time = NoPushTime
  /\ ptask = Idle

\* cmd_bind_jwc lines 1605-1624: a bound identity is answered at once;
\* otherwise login_jwc is awaited
MBindStart(k, qq, sid) ==
  /\ FreeSlot(k)
  /\ IF BindingOf(bindings, qq) # {}
     THEN /\ obs' = [op |-> "bind_refused", qq |-> qq]
          /\ UNCHANGED cmds
     ELSE /\ obs' = [op |-> "step"]
          /\ cmds' = [cmds EXCEPT ![k] = Running("bind", "login", qq, sid, NoCookies, 0)]
  /\ UNCHANGED <<bindings, sessions, courses, changes, cmd>>
  /\ UNCHANGED <<rows, now, cycles, pc, site, found, pushIdx, rcpt, callLog,
                 callFailed, updated, visited, faults, sent, updFailed, loginVars,
                 elem_text, pushVars>>

\* cmd_bind_jwc lines 1624-1633, 1676-1678: login_jwc returns; on success
\* get_user_info_with_cookies is awaited
MBindLoginDone(k) ==
  /\ cmds[k].op = "bind" /\ cmds[k].at = "login"
  /\ \E result \in BindLoginResults :
       /\ cmds' = [cmds EXCEPT ![k] =
                     IF LoginAccepted(result)
                     THEN [@ EXCEPT !.at = "userinfo",
                                    !.cookies = CookieDict(result.cookies, now)]
                     ELSE Idle]
       /\ obs' = [op |-> "step"]
  /\ UNCHANGED <<bindings, sessions, courses, changes, cmd>>
  /\ UNCHANGED <<rows, now, cycles, pc, site, found, pushIdx, rcpt, callLog,
                 callFailed, updated, visited, faults, sent, updFailed, loginVars,
                 elem_text, pushVars>>

\* cmd_bind_jwc lines 1633-1675: the user info arrives and the binding is
\* inserted; an INSERT that raises ends the command (lines 1673-1675),
\* otherwise the commit and save_user_cookies run and
\* update_course_table_with_cookies is awaited
MBindUserInfo(k) ==
  /\ cmds[k].op = "bind" /\ cmds[k].at = "userinfo"
  /\ LET c == cmds[k]
         row == [qq_id |-> c.qq, student_id |-> c.sid,
                 password |-> [enc |-> "base64", of |-> Password],
                 cookie |-> c.cookies, last_login |-> 0, status |-> "active"]
         ins == InsertBinding(bindings, row)
         saved == save_user_cookies(ins.rows, sessions, c.qq, c.sid, c.cookies, now)
     IN  IF ins.raised
         THEN /\ cmds' = [cmds EXCEPT ![k] = Idle]
              /\ obs' = [op |-> "bind_conflict", qq |-> c.qq]
              /\ UNCHANGED <<bindings, sessions>>
         ELSE /\ bindings' = saved.bindings
              /\ sessions' = saved.sessions
              /\ cmds' = [cmds EXCEPT ![k] = [@ EXCEPT !.at = "week"]]
              /\ obs' = [op |-> "step"]
  /\ UNCHANGED <<courses, changes, cmd>>
  /\ UNCHANGED <<rows, now, cycles, pc, site, found, pushIdx, rcpt, callLog,
                 callFailed, updated, visited, faults, sent, updFailed, loginVars,
                 elem_text, pushVars>>

\* cmd_unbind_jwc lines 1683-1706: it has no await, so it runs at once,
\* whatever else is in flight
MUnbind(qq) ==
  /\ BindingOf(bindings, qq) # {}
  /\ LET sid == (CHOOSE b \in BindingOf(bindings, qq) : TRUE).student_id
     IN  /\ bindings' = bindings \ BindingOf(bindings, qq)
         /\ courses' = UnbindRows(courses, sid)
         /\ sessions' = UnbindRows(sessions, sid)
         /\ obs' = [op |-> "unbind", qq |-> qq, sid |-> sid]
  /\ UNCHANGED <<changes, cmd, cmds>>
  /\ UNCHANGED <<rows, now, cycles, pc, site, found, pushIdx, rcpt, callLog,
                 callFailed, updated, visited, faults, sent, updFailed, loginVars,
                 elem_text, pushVars>>

\* cmd_update_course lines 1970-2006, 2020-2023: the cached cookies are
\* read; without any, login_jwc is awaited with the stored password
MUpdateStart(k, qq) ==
  /\ FreeSlot(k)
  /\ BindingOf(bindings, qq) # {}
  /\ LET sid == (CHOOSE b \in BindingOf(bindings, qq) : TRUE).student_id
         cookies == get_user_cookies(sessions, sid)
     IN  cmds' = [cmds EXCEPT ![k] =
                    IF cookies = NoCookies
                    THEN Running("update", "relogin", qq, sid, NoCookies, 0)
                    ELSE Running("update", "week", qq, sid, cookies, 0)]
  /\ obs' = [op |-> "step"]
  /\ UNCHANGED <<bindings, sessions, courses, changes, cmd>>
  /\ UNCHANGED <<rows, now, cycles, pc, site, found, pushIdx, rcpt, callLog,
                 callFailed, updated, visited, faults, sent, updFailed, loginVars,
                 elem_text, pushVars>>

\* cmd_update_course lines 2006-2023: login_jwc returns; on success the
\* cookies are saved and update_course_table_with_cookies is awaited
MReloginDone(k) ==
  /\ cmds[k].op = "update" /\ cmds[k].at = "relogin"
  /\ \E result \in BindLoginResults :
       LET c == cmds[k]
           cookies == CookieDict(result.cookies, now)
           saved == save_user_cookies(bindings, sessions, c.qq, c.sid, cookies, now)
       IN  /\ IF LoginAccepted(result)
              THEN /\ bindings' = saved.bindings
                   /\ sessions' = saved.sessions
                   /\ cmds' = [cmds EXCEPT ![k] =
                                 [@ EXCEPT !.at = "week", !.cookies = cookies]]
              ELSE /\ cmds' = [cmds EXCEPT ![k] = Idle]
                   /\ UNCHANGED <<bindings, sessions>>
           /\ obs' = [op |-> "step"]
  /\ UNCHANGED <<courses, changes, cmd>>
  /\ UNCHANGED <<rows, now, cycles, pc, site, found, pushIdx, rcpt, callLog,
                 callFailed, updated, visited, faults, sent, updFailed, loginVars,
                 elem_text, pushVars>>

\* update_course_table_with_cookies lines 1220-1228: the week info arrives
\* and get_course_table_with_cookies sends its request
MUpdWeekReply(k) ==
  /\ cmds[k].op # "idle" /\ cmds[k].at = "week"
  /\ \E reply \in BindWeekReplies :
       LET week_info == get_current_week_with_cookies(fetch_jwc_with_cookies(reply))
       IN  cmds' = [cmds EXCEPT ![k] =
                      [@ EXCEPT !.at = "table", !.week = WeekOf(week_info)]]
  /\ obs' = [op |-> "step"]
  /\ UNCHANGED <<bindings, sessions, courses, changes, cmd>>
  /\ UNCHANGED <<rows, now, cycles, pc, site, found, pushIdx, rcpt, callLog,
                 callFailed, updated, visited, faults, sent, updFailed, loginVars,
                 elem_text, pushVars>>

\* get_course_table_with_cookies lines 975-988, 1001-1005 and
\* update_course_table_with_cookies lines 1238-1240: the timetable answer
\* arrives; accepted, the week info is asked for the term
MUpdTableReply(k) ==
  /\ cmds[k].op # "idle" /\ cmds[k].at = "table"
  /\ \E reply \in BindTableReplies :
       LET result == fetch_jwc_with_cookies(reply)
       IN  cmds' = [cmds EXCEPT ![k] =
                      IF TableAccepted(result)
                      THEN [@ EXCEPT !.at = "year", !.data = result.data]
                      ELSE Idle]
  /\ obs' = [op |-> "step"]
  /\ UNCHANGED <<bindings, sessions, courses, changes, cmd>>
  /\ UNCHANGED <<rows, now, cycles, pc, site, found, pushIdx, rcpt, callLog,
                 callFailed, updated, visited, faults, sent, updFailed, loginVars,
                 elem_text, pushVars>>

\* get_course_table_with_cookies lines 988-1000 and
\* update_course_table_with_cookies lines 1230-1237: the term arrives, the
\* timetable is parsed and saved, and the command ends
MUpdYearReply(k) ==
  /\ cmds[k].op # "idle" /\ cmds[k].at = "year"
  /\ \E reply \in BindWeekReplies :
       LET c == cmds[k]
           week_info == get_current_week_with_cookies(fetch_jwc_with_cookies(reply))
           year == YearOf(week_info)
           parsed == parse_course_table(c.data, c.sid, year, c.week)
           saved == save_courses_to_db(courses, parsed, c.sid, year, c.week)
       IN  /\ courses' = saved.rows
           /\ obs' = [op |-> "step"]
  /\ cmds' = [cmds EXCEPT ![k] = Idle]
  /\ UNCHANGED <<bindings, sessions, changes, cmd>>
  /\ UNCHANGED <<rows, now, cycles, pc, site, found, pushIdx, rcpt, callLog,
                 callFailed, updated, visited, faults, sent, updFailed, loginVars,
                 elem_text, pushVars>>

NextBind ==
  \/ \E k \in CmdSlots, qq \in ChatIds, sid \in StudentIds : MBindStart(k, qq, sid)
  \/ \E k \in CmdSlots : MBindLoginDone(k)
  \/ \E k \in CmdSlots : MBindUserInfo(k)
  \/ \E qq \in ChatIds : MUnbind(qq)
  \/ \E k \in CmdSlots, qq \in ChatIds : MUpdateStart(k, qq)
  \/ \E k \in CmdSlots : MReloginDone(k)
  \/ \E k \in CmdSlots : MUpdWeekReply(k)
  \/ \E k \in CmdSlots : MUpdTableReply(k)
  \/ \E k \in CmdSlots : MUpdYearReply(k)

\* the commands of two chat identities, interleaved at their awaits
SpecBind == InitBind /\ [][NextBind]_vars

----------------------------------------------------------------------------
(* The course push jobs and today's courses *)

\* course_push_times entries of one configuration, at most
MaxJobs == 2

PushHours == {7, 12, 18}

PushTypes == {"all_day", "afternoon"}

\* The configurations: up to MaxJobs entries at different hours (the job
\* id is made of hour and minute, line 312).
PushConfigs ==
  { c \in UNION { [1..n -> [hour : PushHours, minute : {0}, type : PushTypes]] :
                    n \in 0..MaxJobs } :
      \A i, j \in 1..Len(c) : i # j => c[i].hour # c[j].hour }

PushYears == {"2023", "2024"}

\* Today's entries of a timetable: one course in section 2 (morning), 6
\* (afternoon) and 10 (evening), each there or not.
PushEntries ==
  << [day |-> 1, section |-> "2", name |-> "X"],
     [day |-> 1, section |-> "6", name |-> "X"],
     [day |-> 1, section |-> "10", name |-> "X"] >>

PushTimetables ==
  { SelectSeq(PushEntries, LAMBDA e : e.section \in S) :
      S \in SUBSET {"2", "6", "10"} }

\* the answers to /admin/getDayBz: week 1, day 1 of a term, or an error
PushWeekReplies ==
  { [status |-> 200, body |-> [kind |-> "xlrq", zc |-> 1, xnxqh |-> y],
     cookies |-> {}] : y \in PushYears }
    \cup { [status |-> 500, body |-> EmptyBody, cookies |-> {}] }

\* line 1280, 2073: week_info.get("xqbh", 1)
DayOf(week_info) == 1

\* int() of a section code
SectionNo(code) ==
  CASE code = "1" -> 1
    [] code = "2" -> 2
    [] code = "6" -> 6
    [] code = "10" -> 10
    [] OTHER -> 0

\* lines 1286-1293 and 2079-2086: SELECT * FROM course_schedules WHERE
\* student_id = ? AND week = ? AND day_of_week = ?
TodayRows(rs, sid, week, day) ==
  { r \in rs : r.student_id = sid /\ r.week = week /\ r.day_of_week = day }

\* lines 1308-1310: the filter of the afternoon push
PushFilter(rs, push_type) ==
  IF push_type = "afternoon"
  THEN { r \in rs : SectionNo(r.section_code) >= 5 }
  ELSE rs

\* lines 1326-1333 and 2110-2117
Morning(rs) == { r \in rs : 1 <= SectionNo(r.section_code) /\ SectionNo(r.section_code) <= 4 }

Afternoon(rs) == { r \in rs : 5 <= SectionNo(r.section_code) /\ SectionNo(r.section_code) <= 8 }

Evening(rs) == rs \ (Morning(rs) \cup Afternoon(rs))

\* lines 1335-1354: the courses the message of a push lists
PushListed(rs, push_type) ==
  (IF push_type = "all_day" THEN Morning(rs) ELSE {})
    \cup Afternoon(rs)
    \cup (IF push_type = "all_day" THEN Evening(rs) ELSE {})

\* line 1359: the message is sent
PushSends(rs) == Morning(rs) # {} \/ Afternoon(rs) # {} \/ Evening(rs) # {}

PushTask(at, push_type, cookies, week) ==
  [op |-> "push", at |-> at, type |-> push_type, cookies |-> cookies,
   week |-> week, data |-> [kind |-> "empty", ret |-> -1, entries |-> <<>>]]

\* One chat identity is bound and has a session; the scheduler is not
\* started yet; the configuration is any of PushConfigs or the default.
InitPush ==
  /\ rows = {}
  /\ now = 1
  /\ NoticeIdle
  /\ use_rsa = TRUE
  /\ has_rsa = TRUE
  /\ LoginIdle
  /\ LET cookies == CookieDict(PortalCookies, 1)
         row == [qq_id |-> QQ, student_id |-> Student,
                 password |-> [enc |-> "base64", of |-> Password],
                 cookie |-> cookies, last_login |-> 0, status |-> "active"]
         saved == save_user_cookies({row}, {}, QQ, Student, cookies, 1)
     IN  /\ bindings = saved.bindings
         /\ sessions = saved.sessions
  /\ courses = {}
  /\ changes = {}
  /\ cmd = Idle
  /\ cmds = [k \in CmdSlots |-> Idle]
  /\ elem_text = <<>>
  /\ push_times \in PushConfigs \cup {DefaultPushTimes}
  /\ jobs = <<>>
  /\ push_time = NoPushTime
  /\ ptask = Idle

\* start_scheduler lines 308-316: one job per entry; the loop has no await,
\* and when it ends its variable push_time holds the last entry
StartScheduler ==
  /\ jobs = <<>>
  /\ push_times # <<>>
  /\ jobs' = [i \in 1..Len(push_times) |->
                [hour |-> push_times[i].hour, minute |-> push_times[i].minute]]
  /\ push_time' = push_times[Len(push_times)]
  /\ obs' = [op |-> "scheduled"]
  /\ UNCHANGED <<push_times, ptask, cmds, elem_text, jwcVars>>
  /\ UNCHANGED <<rows, now, cycles, pc, site, found, pushIdx, rcpt, callLog,
                 callFailed, updated, visited, faults, sent, updFailed, loginVars>>

\* the last step of an update command (update_course_table_with_cookies
\* lines 1230-1237) whose fetch was accepted: the timetable of week 1 is
\* saved under the term the portal gave
RefreshSaved ==
  /\ ptask = Idle
  /\ \E t \in PushTimetables, year \in PushYears :
       LET data == [kind |-> "table", ret |-> 0, entries |-> t]
           parsed == parse_course_table(data, Student, year, 1)
       IN  courses' = save_courses_to_db(courses, parsed, Student, year, 1).rows
  /\ obs' = [op |-> "refresh"]
  /\ UNCHANGED <<bindings, sessions, changes, cmd, cmds, elem_text, pushVars>>
  /\ UNCHANGED <<rows, now, cycles, pc, site, found, pushIdx, rcpt, callLog,
                 callFailed, updated, visited, faults, sent, updFailed, loginVars>>

\* scheduled_course_push line 316 and push_course_schedule_task lines
\* 1246-1274: job i fires; the push type is read from push_time; for the
\* bound user the cached cookies are read and the week info is awaited
JobFires(i) ==
  /\ i \in 1..Len(jobs)
  /\ ptask = Idle
  /\ LET push_type == push_time.type
         cookies == get_user_cookies(sessions, Student)
     IN  /\ ptask' = IF bindings = {} \/ cookies = NoCookies THEN Idle
                     ELSE PushTask("week", push_type, cookies, 0)
         /\ obs' = [op |-> "job", job |-> i, entry_type |-> push_times[i].type,
                    push_type |-> push_type]
  /\ UNCHANGED <<push_times, jobs, push_time, cmds, elem_text, jwcVars>>
  /\ UNCHANGED <<rows, now, cycles, pc, site, found, pushIdx, rcpt, callLog,
                 callFailed, updated, visited, faults, sent, updFailed, loginVars>>

\* push_course_schedule_task lines 1274-1361: the week info arrives, today's
\* rows are read; without any the timetable update is awaited, otherwise
\* the message is built and sent
PushWeekReply ==
  /\ ptask.op = "push" /\ ptask.at = "week"
  /\ \E reply \in PushWeekReplies :
       LET week_info == get_current_week_with_cookies(fetch_jwc_with_cookies(reply))
           week == week_info.zc
           today == TodayRows(courses, Student, week, DayOf(week_info))
           kept == PushFilter(today, ptask.type)
       IN  IF ~week_info.has
           THEN /\ ptask' = Idle
                /\ obs' = [op |-> "no_week"]
           ELSE IF today = {}
           THEN /\ ptask' = [ptask EXCEPT !.at = "table", !.week = week]
                /\ obs' = [op |-> "no_rows"]
           ELSE /\ ptask' = Idle
                /\ obs' = [op |-> "pushed", type |-> ptask.type,
                           year |-> week_info.xnxqh,
                           today |-> today,
                           listed |-> IF kept = {} THEN {}
                                      ELSE PushListed(kept, ptask.type),
                           sent |-> kept # {} /\ PushSends(kept)]
  /\ UNCHANGED <<push_times, jobs, push_time, cmds, elem_text, jwcVars>>
  /\ UNCHANGED <<rows, now, cycles, pc, site, found, pushIdx, rcpt, callLog,
                 callFailed, updated, visited, faults, sent, updFailed, loginVars>>

\* get_course_table_with_cookies lines 975-988, 1001-1005 called from line
\* 1300: the timetable answer arrives; accepted, the term is asked for
PushTableReply ==
  /\ ptask.op = "push" /\ ptask.at = "table"
  /\ \E reply \in BindTableReplies :
       LET result == fetch_jwc_with_cookies(reply)
       IN  ptask' = IF TableAccepted(result)
                    THEN [ptask EXCEPT !.at = "year", !.data = result.data]
                    ELSE Idle
  /\ obs' = [op |-> "table_reply"]
  /\ UNCHANGED <<push_times, jobs, push_time, cmds, elem_text, jwcVars>>
  /\ UNCHANGED <<rows, now, cycles, pc, site, found, pushIdx, rcpt, callLog,
                 callFailed, updated, visited, faults, sent, updFailed, loginVars>>

\* get_course_table_with_cookies lines 988-1000 and
\* update_course_table_with_cookies lines 1230-1237 called from line 1300:
\* the term arrives, the timetable is saved, and the push goes on to the
\* next user (line 1301)
PushYearReply ==
  /\ ptask.op = "push" /\ ptask.at = "year"
  /\ \E reply \in PushWeekReplies :
       LET week_info == get_current_week_with_cookies(fetch_jwc_with_cookies(reply))
           year == YearOf(week_info)
           parsed == parse_course_table(ptask.data, Student, year, ptask.week)
       IN  courses' = save_courses_to_db(courses, parsed, Student, year, ptask.week).rows
  /\ ptask' = Idle
  /\ obs' = [op |-> "refresh"]
  /\ UNCHANGED <<bindings, sessions, changes, cmd, cmds, elem_text,
                 push_times, jobs, push_time>>
  /\ UNCHANGED <<rows, now, cycles, pc, site, found, pushIdx, rcpt, callLog,
                 callFailed, updated, visited, faults, sent, updFailed, loginVars>>

\* cmd_today_courses lines 2043-2067: the binding and the cached cookies
\* are read and the week info is awaited
TodayStart ==
  /\ ptask = Idle
  /\ LET cookies == get_user_cookies(sessions, Student)
     IN  ptask' = IF bindings = {} \/ cookies = NoCookies THEN Idle
                  ELSE [PushTask("week", "none", cookies, 0) EXCEPT !.op = "today"]
  /\ obs' = [op |-> "today_start"]
  /\ UNCHANGED <<push_times, jobs, push_time, cmds, elem_text, jwcVars>>
  /\ UNCHANGED <<rows, now, cycles, pc, site, found, pushIdx, rcpt, callLog,
                 callFailed, updated, visited, faults, sent, updFailed, loginVars>>

\* cmd_today_courses lines 2067-2138: the week info arrives, today's rows
\* are read and shown
TodayWeekReply ==
  /\ ptask.op = "today" /\ ptask.at = "week"
  /\ \E reply \in PushWeekReplies :
       LET week_info == get_current_week_with_cookies(fetch_jwc_with_cookies(reply))
           today == TodayRows(courses, Student, week_info.zc, DayOf(week_info))
       IN  obs' = IF ~week_info.has THEN [op |-> "no_week"]
                  ELSE [op |-> "shown", year |-> week_info.xnxqh,
                        listed |-> Morning(today) \cup Afternoon(today)
                                     \cup Evening(today)]
  /\ ptask' = Idle
  /\ UNCHANGED <<push_times, jobs, push_time, cmds, elem_text, jwcVars>>
  /\ UNCHANGED <<rows, now, cycles, pc, site, found, pushIdx, rcpt, callLog,
                 callFailed, updated, visited, faults, sent, updFailed, loginVars>>

NextPush ==
  \/ StartScheduler
  \/ RefreshSaved
  \/ \E i \in 1..MaxJobs : JobFires(i)
  \/ PushWeekReply
  \/ PushTableReply
  \/ PushYearReply
  \/ TodayStart
  \/ TodayWeekReply

\* the scheduler's course push jobs and the command for today's courses
SpecPush == InitPush /\ [][NextPush]_vars

----------------------------------------------------------------------------
(* The publish date of a list item *)

\* the digit groups of the texts that have two digits
TwoDigits == {"03", "12", "05"}

\* The texts the pattern of line 457 matches: four digits, one of - / Y,
\* one or two digits, one of - / M, one or two digits, and D or nothing.
DateTexts ==
  { <<"2024", s1, m, s2, d>> \o e :
      s1 \in {"-", "/", "Y"},
      m \in {"3", "03", "12"},
      s2 \in {"-", "/", "M"},
      d \in {"5", "05"},
      e \in { <<>>, <<"D">> } }

InitDate ==
  /\ rows = {}
  /\ now = 1
  /\ NoticeIdle
  /\ use_rsa = TRUE
  /\ has_rsa = TRUE
  /\ LoginIdle
  /\ JwcIdle
  /\ cmds = [k \in CmdSlots |-> [op |-> "idle"]]
  /\ elem_text \in DateTexts
  /\ push_times = DefaultPushTimes
  /\ jobs = <<>>
  /\ push_time = NoPushTime
  /\ ptask = [op |-> "idle"]

\* parse_notices lines 452-464 for one list item whose element shows the
\* date text
ParseDate ==
  /\ obs = NoObs
  /\ obs' = [op |-> "date",
             publish_date |-> PublishDate([title |-> "A", href |-> <<"/", "n1">>,
                                           date |-> elem_text])]
  /\ UNCHANGED <<rows, now, cycles, pc, site, found, pushIdx, rcpt, callLog,
                 callFailed, updated, visited, faults, sent, updFailed,
                 loginVars, jwcVars, restVars>>

NextDate == ParseDate

\* the publish date of one list item
SpecDate == InitDate /\ [][NextDate]_vars

----------------------------------------------------------------------------
(* Properties of the notice check cycle *)

FoundIds(p) == { found[p][i].id : i \in 1..Len(found[p]) }

Row(id) == CHOOSE r \in rows : r.id = id

AllIdle == \A p \in Invocations : pc[p] = "idle"

\* C1: over cycles run one after another, every notice is pushed to every
\* configured recipient exactly once: no send_message is repeated for a
\* <<notice id, recipient>>, and once no cycle is in flight every stored
\* notice has been sent to every recipient.
C1_PushedExactlyOnce ==
  /\ \A k \in DOMAIN sent : sent[k] = 1
  /\ AllIdle =>
       \A r \in rows : \A j \in 1..Len(Recipients) :
         <<r.id, Recipients[j]>> \in DOMAIN sent

C3_NoDoubleInsertNoDoubleReport ==
  /\ \A r1, r2 \in rows : r1.id = r2.id => r1 = r2
  /\ \A p, q \in Invocations : p # q => FoundIds(p) \cap FoundIds(q) = {}

FrozenKept(rs, rs2) ==
  \A r \in rs : \E r2 \in rs2 :
    /\ r2.id = r.id /\ r2.site_id = r.site_id /\ r2.title = r.title
    /\ r2.url = r.url /\ r2.publish_date = r.publish_date

\* C4: no step removes a notice row or changes its site_id, title, url or
\* publish_date.
C4_RowsFrozen ==
  [][FrozenKept(rows, rows') /\ Cardinality(rows') >= Cardinality(rows)]_vars

\* a check has seen a stored url under another title
C4_Witness == obs.op = "check" /\ obs.rerendered /\ ~obs.fault

\* C6: within one send_notice_push the recipients are tried in order, each
\* once, whatever the earlier sends did, and the call runs to its end: when
\* it has ended, every configured user and group has been tried once.
C6_EveryRecipientTried ==
  /\ \A p \in Invocations :
       pc[p] = "send" =>
         /\ rcpt[p] \in 1..Len(Recipients)
         /\ callLog[p] = SubSeq(Recipients, 1, rcpt[p] - 1)
  /\ obs.op = "pushed" => obs.tried = Recipients

\* a push has ended although an earlier recipient's send failed
C6_Witness == obs.op = "pushed" /\ obs.failedEarlier /\ obs.tried = Recipients

Pending(p, id) ==
  \/ pc[p] \in {"fetch", "sleep"} /\ id \in FoundIds(p)
  \/ pc[p] = "send" /\ \E i \in pushIdx[p]..Len(found[p]) : found[p][i].id = id

NotifiedKept(rs, rs2) ==
  \A r \in rs : r.notified => \E r2 \in rs2 : r2.id = r.id /\ r2.notified

EnabledSites ==
  SelectSeq([i \in 1..Len(sites_config) |-> i], LAMBDA i : sites_config[i].enabled)

\* C19: a check whose fetch ended in a timeout, a connection error or an
\* HTTP error reports no notice and changes neither the store nor the
\* cycle's list of new notices, the cycle goes on to its sleep and the next
\* site, and a cycle that returns has checked every enabled site, in order.
C19_FetchErrorSkipsSiteOnly ==
  /\ [](/\ (obs.op = "check" /\ ~obs.fetched) =>
             /\ obs.reported = <<>> /\ obs.inserted = {}
             /\ pc[obs.p] = "sleep"
        /\ obs.op = "returned" => obs.visited = EnabledSites)
  /\ [][(obs'.op = "check" /\ ~obs'.fetched) => (rows' = rows /\ found' = found)]_vars

\* the fetch of the first site failed while the store holds notices, and
\* another enabled site is still to be checked
C19_Witness ==
  /\ obs.op = "check" /\ ~obs.fetched
  /\ site[obs.p] = 1 /\ NextEnabled(2) <= Len(sites_config)
  /\ rows # {}

\* C20: a check that a store error interrupted has still inserted every
\* notice of the batch that was not stored, but for the one the error hit.
C20_StoreErrorSkipsOneNotice ==
  (obs.op = "check" /\ obs.fault) =>
    Cardinality(obs.inserted) >= Cardinality(obs.fresh) - 1

\* C23: every notice check_site_notices reports as new is in the notices
\* store when it returns, and no send_message is made for a notice id that
\* the store does not hold.
C23_ReportedAreStored ==
  /\ obs.op = "check" =>
       \A i \in 1..Len(obs.reported) : obs.reported[i] \in Ids(rows)
  /\ \A k \in DOMAIN sent : k[1] \in Ids(rows)

----------------------------------------------------------------------------
(* Properties of the notified-update *)

\* C5 as stated: the notified-update of a notice that an earlier update has
\* marked leaves the stored state as that earlier update left it.
C5_SecondMarkSameState ==
  (obs.op = "mark" /\ obs.wasNotified) => rows = obs.before

\* C5 amended: the notified-update changes no other row and not the number
\* of rows; applied to a notice that an earlier update has marked, it leaves
\* the notice notified and every column but notified_at as it was, and sets
\* notified_at to the time of this later update.
C5_SecondMarkKeepsAllButTime ==
  obs.op = "mark" =>
    /\ Cardinality(rows) = Cardinality(obs.before)
    /\ \A r \in obs.before : r.id # obs.id => r \in rows
    /\ \A r \in rows : r.id # obs.id => r \in obs.before
    /\ obs.wasNotified =>
         \E r \in rows, old \in obs.before :
           /\ r.id = obs.id /\ old.id = obs.id
           /\ r.notified /\ r.notified_at = now
           /\ [r EXCEPT !.notified_at = old.notified_at] = old

\* a marked notice has been marked again, later, beside another row
C5_Witness ==
  /\ obs.op = "mark" /\ obs.wasNotified
  /\ Cardinality(rows) = 2 /\ rows # obs.before

----------------------------------------------------------------------------
(* Properties of the portal login *)

\* the errors that name no specific cause
UnknownErrors == {"server_returned", "unknown_error", "unknown_reason"}

\* C8: login_jwc returns success only when the login POST it last sent was
\* answered with a redirect and at least one cookie was obtained.
C8_SuccessOnlyOnRedirectWithCookie ==
  (lpc = "done" /\ lresult.success) =>
    /\ posts[Len(posts)].status = 302
    /\ posts[Len(posts)].cookies # {}
    /\ lresult.cookies # {}

\* C9: with use_rsa_encryption enabled, the password field of every login
\* POST is the RSA ciphertext.
C9_NoPlaintextUnlessDisabled ==
  use_rsa => \A i \in 1..Len(wire) : wire[i].password.enc = "rsa"

\* C10: when every login POST of a call was answered with status 200 and
\* the same body, login_jwc returns the error that body stands for:
\* invalid credentials, else captcha required, else an unknown error.
C10_SpecificErrorReturned ==
  ( /\ lpc = "done"
    /\ posts # <<>>
    /\ \A i \in 1..Len(posts) : posts[i].status = 200 /\ posts[i].body = posts[1].body ) =>
    LET b == posts[1].body
    IN  /\ ~lresult.success
        /\ b.cred => lresult.error = "bad_credentials"
        /\ (~b.cred /\ b.captcha) => lresult.error = "captcha"
        /\ (~b.cred /\ ~b.captcha) => lresult.error \in UnknownErrors

----------------------------------------------------------------------------
(* Properties of the portal commands *)

\* C11: a cached session is used only while it is inside its freshness
\* window: a command that reads the cached cookies once the session's
\* expires_at has passed gets none of them (and so logs in again).
C11_ExpiredSessionNotUsed ==
  (obs.op = "use" /\ obs.expired) => obs.cookies = NoCookies

C13_Non200InvalidatesSession ==
  (/\ obs.op \in {"week_reply", "table_reply"}
   /\ obs.cached
   /\ obs.status \notin {0, 200})
    => get_user_cookies(sessions, Student) = NoCookies

\* the rows of one (student, academic year, week)
KeyRows(rs, sid, year, week) == { r \in rs : SameKey(r, sid, year, week) }

Range(s) == { s[i] : i \in 1..Len(s) }

\* C14: after save_courses_to_db the stored records of the key are exactly
\* the new records, and the records of every other key are as before.
C14_SaveReplacesKeyExactly ==
  [][obs'.op = "saved" =>
       LET new == parse_course_table(cmd.data, Student, obs'.year, obs'.week)
       IN  /\ KeyRows(courses', Student, obs'.year, obs'.week) = Range(new)
           /\ courses' \ KeyRows(courses', Student, obs'.year, obs'.week)
                = courses \ KeyRows(courses, Student, obs'.year, obs'.week)]_vars

\* C15: no two stored course records share (student, academic year, week,
\* day, section), whatever the fetched timetable holds, and a stored record
\* gives way to another of its slot only in a save_courses_to_db that
\* committed.
C15_OneRecordPerSlot ==
  /\ [](\A r1, r2 \in courses : SameSlot(r1, r2) => r1 = r2)
  /\ [][(\E r \in courses, c \in courses' : SameSlot(r, c) /\ r # c) =>
          (obs'.op = "saved" /\ ~obs'.raised)]_vars

\* C15 witness: a timetable with two entries for one slot has been saved
\* (the term was known, so it is the slot that made the INSERT raise).
C15_Witness ==
  obs.op = "saved" /\ obs.raised /\ obs.year # "none"

\* the slots whose record differs between two snapshots
ChangedSlots(before, after) ==
  { <<r.academic_year, r.week, r.day_of_week, r.section_code>> :
      r \in (before \ after) \cup (after \ before) }

\* C16: a run of the change-detection job records exactly one change event
\* per slot that was removed, added or modified, and none for the others.
C16_OneEventPerChangedSlot ==
  [][(obs'.op = "saved" /\ obs'.by = "task") =>
       Cardinality(changes' \ changes)
         = Cardinality(ChangedSlots(courses, courses'))]_vars

\* C17: get_course_table_with_cookies goes on to report success only for
\* a 200 answer whose JSON envelope has ret = 0.
C17_SuccessOnlyOnEnvelopeRetZero ==
  (obs.op = "table_reply" /\ obs.accepted)
    => (obs.status = 200 /\ obs.kind = "table" /\ obs.ret = 0)

\* C18: cmd_course_table fetches the timetable exactly when no record is
\* stored for the queried (student, academic year, week); a query that
\* finds a stored snapshot ends there and leaves the course records alone.
C18_QueryFetchesOnlyWhenNothingStored ==
  /\ [](obs.op = "query" => (obs.fetch <=> ~obs.stored))
  /\ [][(obs'.op = "query" /\ obs'.stored) =>
          (courses' = courses /\ cmd'.op = "idle")]_vars

\* C18 witness: a query found a stored snapshot and did not fetch.
C18_Witness ==
  obs.op = "query" /\ obs.stored /\ ~obs.fetch /\ courses # {}

\* C22: a stored course record is deleted by a timetable update only when
\* the answer it saves is the timetable JSON (envelope ret = 0): a network
\* error, a login page or an error envelope leaves the stored snapshot as
\* it is.
C22_SnapshotKeptUnlessTimetable ==
  [][(obs'.op = "saved" /\ \E r \in courses : r \notin courses') =>
       (cmd.data.kind = "table" /\ cmd.data.ret = 0)]_vars

\* C24: update_course_table_with_cookies returns True only if the save did
\* not fail and the stored records of (student, academic year, week) are
\* the records it fetched.
C24_TrueOnlyIfStoredIsFetched ==
  [][(obs'.op = "saved" /\ obs'.success) =>
       /\ ~obs'.raised
       /\ KeyRows(courses', Student, obs'.year, obs'.week)
            = Range(parse_course_table(cmd.data, Student, obs'.year, obs'.week))]_vars

----------------------------------------------------------------------------
(* Properties of the publish date *)

IsIsoDate(d) ==
  /\ Len(d) = 5
  /\ d[1] = "2024"
  /\ d[2] = "-" /\ d[4] = "-"
  /\ d[3] \in TwoDigits /\ d[5] \in TwoDigits

\* C21: the publish date taken from a list item has the form YYYY-MM-DD
\* with "-" separators, and the texts 2024Y3M5D, 2024/3/5 and 2024-03-05
\* all give 2024-03-05.
C21_DateIsYearMonthDay ==
  obs.op = "date" =>
    /\ IsIsoDate(obs.publish_date)
    /\ elem_text \in { <<"2024", "Y", "3", "M", "5", "D">>,
                        <<"2024", "/", "3", "/", "5">>,
                        Iso20240305 }
         => obs.publish_date = Iso20240305

----------------------------------------------------------------------------
(* Properties of overlapping bind, unbind and update commands *)

BoundStudents == { b.student_id : b \in bindings }

\* C25: course_schedules and login_sessions hold rows only for student ids
\* that have a binding, also when an unbind runs while a timetable refresh
\* or a re-login for the student is suspended on a portal request.
C25_RowsOnlyForBoundStudents ==
  /\ \A r \in courses : r.student_id \in BoundStudents
  /\ \A r \in sessions : r.student_id \in BoundStudents

\* the rows of a table that belong to one student
RowsOf(rs, sid) == { r \in rs : r.student_id = sid }

\* C26: an unbind of one chat identity leaves the binding of every other
\* identity, and the stored session and course records of the student that
\* identity is bound to, as they were.
C26_UnbindKeepsOthersData ==
  [][obs'.op = "unbind" =>
       \A b \in bindings : b.qq_id # obs'.qq =>
         /\ b \in bindings'
         /\ RowsOf(sessions', b.student_id) = RowsOf(sessions, b.student_id)
         /\ RowsOf(courses', b.student_id) = RowsOf(courses, b.student_id)]_vars

\* C27: a chat identity never has two bindings, also when two of its bind
\* commands overlap at the login, and a bind command of an identity that is
\* bound starts no login and leaves bindings, sessions and courses as they
\* are.
C27_OneBindingPerIdentity ==
  /\ [](\A b1, b2 \in bindings : b1.qq_id = b2.qq_id => b1 = b2)
  /\ [][obs'.op = "bind_refused" =>
          /\ bindings' = bindings
          /\ sessions' = sessions
          /\ courses' = courses
          /\ cmds' = cmds]_vars

\* C27 witness: two bind commands of one identity overlapped, and the
\* INSERT of the second found the binding of the first.
C27_Witness ==
  /\ obs.op = "bind_conflict"
  /\ BindingOf(bindings, obs.qq) # {}

----------------------------------------------------------------------------
(* Properties of the course push *)

\* C28: a course push job invokes push_course_schedule_task with the type
\* of its own course_push_times entry.
C28_JobPushesOwnType ==
  obs.op = "job" => obs.push_type = obs.entry_type

\* C29: an afternoon push lists every stored course of today whose section
\* is 5 to 11, and a message is sent only if it lists a course.
C29_AfternoonPushListsFiveToEleven ==
  (obs.op = "pushed" /\ obs.type = "afternoon") =>
    /\ obs.listed = { r \in obs.today : 5 <= SectionNo(r.section_code)
                                          /\ SectionNo(r.section_code) <= 11 }
    /\ obs.sent => obs.listed # {}

\* C30: the courses pushed or shown for today are of the current academic
\* year: none is a record stored under another academic_year.
C30_TodayOfCurrentYearOnly ==
  obs.op \in {"pushed", "shown"} =>
    \A r \in obs.listed : r.academic_year = obs.year

====
